---- MODULE Spec2Model ----
(***************************************************************************)
(* The assessment workflow of edx-ora2 (openassessment/workflow/models.py) *)
(* as a state machine: the persisted AssessmentWorkflow row and its        *)
(* AssessmentWorkflowStep rows, the submission store's scores, the hooks   *)
(* invoked on the assessment modules, and the operations start_workflow,   *)
(* update_from_assessments, update_workflow_async and status_details, each *)
(* with the exceptions it can end in.  SpecConc interleaves two            *)
(* re-evaluations; SpecDeploy adds a deployment in which a configured      *)
(* module stops being importable; SpecLive is repeated re-evaluation under *)
(* fairness; SpecSelf is the self-assessment API that test_self.py         *)
(* exercises.                                                              *)
(*                                                                         *)
(* The assessment modules and the submission store are external: what a    *)
(* module answers to submitter_is_finished, assessment_is_finished and     *)
(* get_score is an input of each call, drawn with \E.                      *)
(***************************************************************************)
EXTENDS Integers, Sequences, FiniteSets, TLC

\* ------------------------------------------------------------------ bounds

\* The number of operations that read now() in one behaviour.
MaxClock == 3

\* The number of submissions of the student in one behaviour.
MaxSubmissions == 2

\* ----------------------------------------------------------- configuration

\* A DateTimeField holding NULL (default=None, null=True).
None == 0

\* The keys of DEFAULT_ASSESSMENT_API_DICT: the configured step names.
DEFAULT_ASSESSMENT_API_DICT == {"peer", "self", "training", "ai"}

\* AssessmentWorkflow.STEPS = ASSESSMENT_API_DICT.keys()
STEPS == DEFAULT_ASSESSMENT_API_DICT

\* DEFAULT_ASSESSMENT_SCORE_PRIORITY = ['peer', 'self', 'ai']
ASSESSMENT_SCORE_PRIORITY == <<"peer", "self", "ai">>

\* AssessmentWorkflow.STATUSES
STATUSES == {"waiting", "done"}

\* AssessmentWorkflow.STATUS_VALUES = STEPS + STATUSES
STATUS_VALUES == STEPS \cup STATUSES

\* The optional functions an assessment module may define.
AllCaps ==
    {"on_init", "on_start", "submitter_is_finished", "assessment_is_finished",
     "get_score"}

\* The deployments considered: for each configured name, the functions its
\* module defines.
ModuleConfigs ==
    { [n \in STEPS |-> AllCaps],
      [n \in STEPS |-> AllCaps \ {"get_score"}],
      [n \in STEPS |-> IF n = "peer" THEN AllCaps \ {"get_score"} ELSE AllCaps],
      [n \in STEPS |-> IF n = "self" THEN {"on_init", "get_score"} ELSE AllCaps] }

\* The step_names lists given to start_workflow ("bogus" is a name that no
\* configuration lists).
StepLists ==
    { <<"peer", "self">>, <<"self">>, <<"self", "ai">>,
      <<"training", "peer">>, <<"bogus">>, <<"bogus", "peer">>, <<>> }

\* assessment_requirements: None, or a dict with the given keys (a name that
\* is no key gets the default {} of assessment_requirements.get).
Requirements ==
    { [none |-> TRUE, keys |-> {}],
      [none |-> FALSE, keys |-> {"peer"}] }

ReqNone == [none |-> TRUE, keys |-> {}]

VARIABLES
    modules,         \* settings.ORA2_ASSESSMENTS: name -> functions of its module
    created,         \* whether the AssessmentWorkflow row exists
    workflow_count,  \* the number of AssessmentWorkflow rows of the submission
    status,          \* the persisted AssessmentWorkflow.status
    steps,           \* the persisted AssessmentWorkflowStep rows, in id order
    scores,          \* the scores written with sub_api.set_score, in order
    on_init_calls,   \* name -> number of on_init calls on its module whose
                     \* work is in the database
    on_start_calls,  \* name -> number of on_start calls on its module whose
                     \* work is in the database
    clock,           \* now()
    last,            \* the inputs and effects of the last operation
    pc,              \* caller -> where it is in its re-evaluation
    w_status,        \* caller -> the status field of its workflow object
    w_rows,          \* caller -> its step objects, by row id
    w_ids,           \* caller -> the list _get_steps returned to it (row ids)
    w_idx,           \* caller -> the step its loop over step.update is at
    w_now,           \* caller -> now() in its call
    submissions,     \* the number of submissions the student created
    self_assessments,\* submission -> its stored self-assessments, in order
    self_last        \* the last call of the self-assessment API

procvars == <<pc, w_status, w_rows, w_ids, w_idx, w_now>>

selfvars == <<submissions, self_assessments, self_last>>

vars == <<modules, created, workflow_count, status, steps, scores,
          on_init_calls, on_start_calls, clock, last, pc, w_status, w_rows,
          w_ids, w_idx, w_now, submissions, self_assessments, self_last>>

\* The two callers that may re-evaluate one workflow at the same time: a
\* request calling update_from_assessments and the receiver
\* update_workflow_async.
Procs == {"sync", "async"}

AllNames == STEPS \cup {"bogus"}

Range(s) == {s[i] : i \in DOMAIN s}

\* ------------------------------------------------------- AssessmentWorkflowStep

\* AssessmentWorkflowStep(workflow=workflow, name=step, order_num=i)
NewStep(name, i) ==
    [name |-> name, order_num |-> i,
     submitter_completed_at |-> None, assessment_completed_at |-> None]

is_submitter_complete(step) == step.submitter_completed_at # None

is_assessment_complete(step) == step.assessment_completed_at # None

\* step.api() is not None: the name is configured.
HasApi(name) == name \in DOMAIN modules

\* hasattr(step.api(), f); getattr(None, f, default) is the default too.
Defines(name, f) == HasApi(name) /\ f \in modules[name]

\* What importlib.import_module gives for a configured path that cannot be
\* imported (ImportError, ValueError), in place of the module's functions.
ImportError == {"ImportError"}

\* A mutant of ApiLoadError: a name that is not configured raises as well.
ApiLoadErrorUnconfigured(name) ==
    name \notin DOMAIN modules \/ modules[name] = ImportError

\* step.api() raises AssessmentApiLoadError: the name is configured and its
\* module cannot be imported.
ApiLoadError(name) == HasApi(name) /\ modules[name] = ImportError

\* A mutant of SubmitterFinished: without the default lambda, a step with no
\* submitter_is_finished to ask is never finished.
SubmitterFinishedStrict(name, sub_true) ==
    Defines(name, "submitter_is_finished") /\ name \in sub_true

\* submitter_finished(submission_uuid, step_reqs), with the default lambda.
SubmitterFinished(name, sub_true) ==
    IF Defines(name, "submitter_is_finished") THEN name \in sub_true ELSE TRUE

\* A mutant of AssessmentFinished: without the default lambda, a step with no
\* assessment_is_finished to ask is never assessed.
AssessmentFinishedStrict(name, ass_true) ==
    Defines(name, "assessment_is_finished") /\ name \in ass_true

\* assessment_finished(submission_uuid, step_reqs), with the default lambda.
AssessmentFinished(name, ass_true) ==
    IF Defines(name, "assessment_is_finished") THEN name \in ass_true ELSE TRUE

\* A mutant of StepReqs: an empty dict stands in for requirements None.
StepReqsOrEmpty(req, name) ==
    IF ~req.none /\ name \in req.keys THEN name ELSE "{}"

\* step_reqs, the requirements argument of the completion tests: "None"
\* when assessment_requirements is None, else
\* assessment_requirements.get(self.name, {}): the sub-dict of the name
\* (written as the name) or the default "{}".
StepReqs(req, name) ==
    IF req.none THEN "None"
    ELSE IF name \in req.keys THEN name ELSE "{}"

\* A mutant of StepUpdate: a step is complete only as long as its module says
\* so, and the timestamp is cleared when it no longer does.
StepUpdateRelatch(step, sub_true, ass_true, t) ==
    [step EXCEPT
        !.submitter_completed_at =
            IF SubmitterFinished(step.name, sub_true) THEN t ELSE None,
        !.assessment_completed_at =
            IF AssessmentFinished(step.name, ass_true) THEN t ELSE None]

\* A mutant of StepUpdate: the is_submitter_complete and is_assessment_complete
\* guards are missing, so a finished step gets a new timestamp at every call.
StepUpdateRefresh(step, sub_true, ass_true, t) ==
    [step EXCEPT
        !.submitter_completed_at =
            IF SubmitterFinished(step.name, sub_true) THEN t ELSE @,
        !.assessment_completed_at =
            IF AssessmentFinished(step.name, ass_true) THEN t ELSE @]

\* AssessmentWorkflowStep.update: the row after the call (saved when changed).
StepUpdate(step, sub_true, ass_true, t) ==
    [step EXCEPT
        !.submitter_completed_at =
            IF ~is_submitter_complete(step)
               /\ SubmitterFinished(step.name, sub_true)
            THEN t ELSE @,
        !.assessment_completed_at =
            IF ~is_assessment_complete(step)
               /\ AssessmentFinished(step.name, ass_true)
            THEN t ELSE @]

\* ----------------------------------------------------------- _get_steps

\* The row ids in S in an order the ordering ["workflow", "order_num"] allows.
Orderings(S, rows) ==
    { s \in [1..Cardinality(S) -> S] :
        /\ \A i, j \in 1..Cardinality(S) : i # j => s[i] # s[j]
        /\ \A i, j \in 1..Cardinality(S) :
              i < j => rows[s[i]].order_num <= rows[s[j]].order_num }

\* self.steps.filter(name__in=AssessmentWorkflow.STEPS)
Recognized(rows) == {i \in DOMAIN rows : rows[i].name \in STEPS}

\* A mutant of GetStepsRows: peer and self are added at every call.
GetStepsRowsAlways(rows) ==
    rows \o <<NewStep("peer", 0), NewStep("self", 1)>>

\* The rows after _get_steps: peer and self are added when no row is recognized.
GetStepsRows(rows) ==
    IF Recognized(rows) = {}
    THEN rows \o <<NewStep("peer", 0), NewStep("self", 1)>>
    ELSE rows

\* The lists _get_steps may return (row ids): the recognized rows, or all the
\* rows (self.steps.all()) after the fallback.
GetSteps(rows) ==
    IF Recognized(rows) = {}
    THEN Orderings(DOMAIN GetStepsRows(rows), GetStepsRows(rows))
    ELSE Orderings(Recognized(rows), rows)

\* step_for_name = {step.name: step for step in steps}: the id of the last
\* step of that name, 0 for none.
StepForName(ids, rows, name) ==
    LET hits == {i \in DOMAIN ids : rows[ids[i]].name = name}
    IN  IF hits = {} THEN 0
        ELSE ids[CHOOSE i \in hits : \A j \in hits : j <= i]

\* The place in the list ids of the first step whose api() raises
\* AssessmentApiLoadError, 0 when every module loads.
FirstLoadError(ids, rows) ==
    IF \A k \in DOMAIN ids : ~ApiLoadError(rows[ids[k]].name) THEN 0
    ELSE CHOOSE k \in DOMAIN ids :
            /\ ApiLoadError(rows[ids[k]].name)
            /\ \A j \in 1..(k - 1) : ~ApiLoadError(rows[ids[j]].name)

\* ------------------------------------------------- update_from_assessments

Min(S) == CHOOSE x \in S : \A y \in S : x <= y

\* sub_api.set_score has not been given a score: get_score returned None.
NoScore == <<>>

\* What a module's get_score returns when it has a score to give: the
\* (points_earned, points_possible) of that module.
ModuleScore(name) ==
    CASE name = "peer" -> <<7, 10>>
      [] name = "self" -> <<8, 10>>
      [] name = "ai" -> <<9, 10>>
      [] OTHER -> <<6, 10>>

\* get_score_func(self.submission_uuid, requirements)
GetScore(name, score_ok) ==
    IF name \in score_ok THEN ModuleScore(name) ELSE NoScore

\* A mutant of IsDone: the early return is missing.
IsDoneNever(st) == FALSE

\* self.status == self.STATUS.done
IsDone(st) == st = "done"

\* A mutant of UpdateSteps: a call updates the first step of the list only.
UpdateStepsFirstOnly(ids, rows, sub_true, ass_true, t) ==
    [i \in DOMAIN rows |->
        IF ids # <<>> /\ i = ids[1]
        THEN StepUpdate(rows[i], sub_true, ass_true, t)
        ELSE rows[i]]

\* The rows after "for step in steps: step.update(...)".
UpdateSteps(ids, rows, sub_true, ass_true, t) ==
    [i \in DOMAIN rows |->
        IF i \in Range(ids)
        THEN StepUpdate(rows[i], sub_true, ass_true, t)
        ELSE rows[i]]

\* The names of the steps whose module is asked submitter_is_finished:
\* the module defines it and the step is not submitter-complete.
AskedSubmitter(ids, rows) ==
    { rows[ids[i]].name : i \in
        { j \in DOMAIN ids :
            /\ ~is_submitter_complete(rows[ids[j]])
            /\ Defines(rows[ids[j]].name, "submitter_is_finished") } }

\* The names of the steps whose module is asked assessment_is_finished.
AskedAssessment(ids, rows) ==
    { rows[ids[i]].name : i \in
        { j \in DOMAIN ids :
            /\ ~is_assessment_complete(rows[ids[j]])
            /\ Defines(rows[ids[j]].name, "assessment_is_finished") } }

\* A mutant of NewStatus: the first step that is not assessed, the two
\* timestamps confused.
NewStatusUnassessed(ids, rows) ==
    LET open == {i \in DOMAIN ids : ~is_assessment_complete(rows[ids[i]])}
    IN  IF open = {} THEN "waiting"
        ELSE rows[ids[CHOOSE i \in open : \A j \in open : i <= j]].name

\* A mutant of NewStatus: the last incomplete step instead of the first.
NewStatusLast(ids, rows) ==
    LET open == {i \in DOMAIN ids : ~is_submitter_complete(rows[ids[i]])}
    IN  IF open = {} THEN "waiting"
        ELSE rows[ids[CHOOSE i \in open : \A j \in open : j <= i]].name

\* new_status = next((step.name for step in steps
\*                    if step.submitter_completed_at is None), waiting)
NewStatus(ids, rows) ==
    LET open == {i \in DOMAIN ids : ~is_submitter_complete(rows[ids[i]])}
    IN  IF open = {} THEN "waiting" ELSE rows[ids[Min(open)]].name

\* A mutant of AllAssessed: the scoring does not wait for the assessments.
AllAssessedSkipped(ids, rows) == TRUE

\* all(step.assessment_completed_at for step in steps)
AllAssessed(ids, rows) ==
    \A i \in DOMAIN ids : is_assessment_complete(rows[ids[i]])

\* The priority names whose step is in the workflow and whose module defines
\* get_score.
CanScore(ids, rows) ==
    { n \in Range(ASSESSMENT_SCORE_PRIORITY) :
        StepForName(ids, rows, n) # 0 /\ Defines(n, "get_score") }

\* A mutant of ScoreSearch: the last name of the priority list that can score.
ScoreSearchLast(k, ids, rows) ==
    LET hits == {i \in DOMAIN ASSESSMENT_SCORE_PRIORITY :
                    ASSESSMENT_SCORE_PRIORITY[i] \in CanScore(ids, rows)}
    IN  IF hits = {} THEN "none"
        ELSE ASSESSMENT_SCORE_PRIORITY[CHOOSE i \in hits : \A j \in hits : j <= i]

\* "for assessment_step_name in ASSESSMENT_SCORE_PRIORITY", from index k: the
\* name of the one module whose get_score is called (the loop breaks after
\* the call), "none" when the loop ends without a call.
RECURSIVE ScoreSearch(_, _, _)
ScoreSearch(k, ids, rows) ==
    IF k > Len(ASSESSMENT_SCORE_PRIORITY) THEN "none"
    ELSE IF /\ StepForName(ids, rows, ASSESSMENT_SCORE_PRIORITY[k]) # 0
            /\ Defines(ASSESSMENT_SCORE_PRIORITY[k], "get_score")
         THEN ASSESSMENT_SCORE_PRIORITY[k]
         ELSE ScoreSearch(k + 1, ids, rows)

\* The name of the step whose module's on_start is called, "none" for no call:
\* new_step = step_for_name.get(new_status), and the module defines on_start.
OnStartStep(ids, rows, new_status) ==
    IF StepForName(ids, rows, new_status) # 0 /\ Defines(new_status, "on_start")
    THEN new_status ELSE "none"

\* The callers of update_from_assessments other than start_workflow.
UpdateOps == {"update_from_assessments", "update_workflow_async"}

\* Bookkeeping for the history variable last: whether a call repeats the call
\* recorded in prev, which returned: the same requirements, and every module
\* asked by both gives the same answer.
Repeats(prev, op, req, asked_sub, sub_true, asked_ass, ass_true, attempted,
        score_ok) ==
    /\ prev.op \in UpdateOps
    /\ ~prev.raised
    /\ op \in UpdateOps
    /\ req = prev.req
    /\ \A n \in asked_sub \cap prev.asked_sub :
            n \in sub_true <=> n \in prev.sub_true
    /\ \A n \in asked_ass \cap prev.asked_ass :
            n \in ass_true <=> n \in prev.ass_true
    /\ (attempted /\ prev.attempted) => score_ok = prev.score_ok

\* The record of an operation that returned at "if self.status == done".
NoOp(prev, op, req, st, names) ==
    [op |-> op, req |-> req, step_names |-> names, pre_status |-> st,
     returned_early |-> TRUE,
     repeat |-> Repeats(prev, op, req, {}, {}, {}, {}, FALSE, {}),
     considered |-> {}, asked_sub |-> {}, asked_ass |-> {},
     sub_true |-> {}, ass_true |-> {}, attempted |-> FALSE,
     score_ok |-> {}, scorer |-> "none", wrote |-> NoScore,
     started |-> "none", computed |-> st, saved |-> FALSE,
     raised |-> FALSE, propagated |-> FALSE, fail |-> "none", details |-> {},
     passed |-> {}]

\* Whether the scoring loop is entered: new_status == waiting and
\* all(step.assessment_completed_at for step in steps).
ScoringAttempted(ids, rows) ==
    NewStatus(ids, rows) = "waiting" /\ AllAssessed(ids, rows)

\* The modules whose answer to get_score is an input of the call.
ScoreInputs(ids, rows) ==
    IF ScoringAttempted(ids, rows) THEN CanScore(ids, rows) ELSE {}

\* A mutant of Outcome: the status is done whenever scoring is attempted,
\* score or no score.
OutcomeAlwaysDone(ids, rows, score_ok) ==
    LET new_status == NewStatus(ids, rows)
        scorer == IF ScoringAttempted(ids, rows)
                  THEN ScoreSearch(1, ids, rows) ELSE "none"
        score == IF scorer # "none" THEN GetScore(scorer, score_ok)
                 ELSE NoScore
    IN  [new_status |-> new_status,
         started |-> OnStartStep(ids, rows, new_status),
         attempted |-> ScoringAttempted(ids, rows),
         scorer |-> scorer,
         score |-> score,
         final |-> IF ScoringAttempted(ids, rows) THEN "done" ELSE new_status]

\* update_from_assessments from "new_status = next(...)" to the save, on the
\* step objects rows[ids[..]] as the loop over step.update left them:
\* the step notified with on_start, the module asked for a score, the score
\* it gave and the status the call ends with.
Outcome(ids, rows, score_ok) ==
    LET new_status == NewStatus(ids, rows)
        scorer == IF ScoringAttempted(ids, rows)
                  THEN ScoreSearch(1, ids, rows) ELSE "none"
        score == IF scorer # "none" THEN GetScore(scorer, score_ok)
                 ELSE NoScore
    IN  [new_status |-> new_status,
         started |-> OnStartStep(ids, rows, new_status),
         attempted |-> ScoringAttempted(ids, rows),
         scorer |-> scorer,
         score |-> score,
         final |-> IF score # NoScore THEN "done" ELSE new_status]

\* A mutant of SaveNeeded: the workflow is saved at every call.
SaveAlways(st, final) == TRUE

\* if self.status != new_status: self.status = new_status; self.save()
SaveNeeded(st, final) == st # final

\* The on_start counters after on_start_func(self.submission_uuid).
Started(starts, name) ==
    [n \in AllNames |-> IF n = name THEN starts[n] + 1 ELSE starts[n]]

\* self.set_score(score) when a score was found.
SetScore(written, score) ==
    IF score # NoScore THEN Append(written, score) ELSE written

\* update_from_assessments on a workflow object whose status field is st,
\* with the rows rows0 in the database, starts on_start calls made so far.
Update(st, rows0, starts, req, op, names) ==
    IF IsDone(st)
    THEN /\ status' = st
         /\ steps' = rows0
         /\ scores' = scores
         /\ on_start_calls' = starts
         /\ last' = NoOp(last, op, req, st, names)
    ELSE \E rows1 \in {GetStepsRows(rows0)} :
         \E ids \in {s \in GetSteps(rows0) : FirstLoadError(s, rows1) = 0} :
         \E sub_true \in SUBSET AskedSubmitter(ids, rows1),
            ass_true \in SUBSET AskedAssessment(ids, rows1) :
         \E rows2 \in {UpdateSteps(ids, rows1, sub_true, ass_true,
                                   clock + 1)} :
         \E score_ok \in SUBSET ScoreInputs(ids, rows2) :
         \E out \in {Outcome(ids, rows2, score_ok)} :
         /\ steps' = rows2
         /\ on_start_calls' = Started(starts, out.started)
         /\ scores' = SetScore(scores, out.score)
         /\ status' = IF SaveNeeded(st, out.final) THEN out.final ELSE st
         /\ last' =
                [op |-> op, req |-> req, step_names |-> names,
                 pre_status |-> st, returned_early |-> FALSE,
                 repeat |-> Repeats(last, op, req,
                                AskedSubmitter(ids, rows1), sub_true,
                                AskedAssessment(ids, rows1), ass_true,
                                out.attempted, score_ok),
                 considered |-> {rows1[ids[i]].name : i \in DOMAIN ids},
                 asked_sub |-> AskedSubmitter(ids, rows1),
                 asked_ass |-> AskedAssessment(ids, rows1),
                 sub_true |-> sub_true, ass_true |-> ass_true,
                 attempted |-> out.attempted, score_ok |-> score_ok,
                 scorer |-> out.scorer, wrote |-> out.score,
                 started |-> out.started,
                 computed |-> out.final,
                 saved |-> SaveNeeded(st, out.final),
                 raised |-> FALSE, propagated |-> FALSE, fail |-> "none",
                 details |-> {},
                 passed |-> {<<n, StepReqs(req, n)>> :
                                n \in AskedSubmitter(ids, rows1)
                                        \cup AskedAssessment(ids, rows1)}]

\* ------------------------------------------------------------- exceptions

\* The rows of the submission in the database: the workflow's and, in inits
\* and starts, what the modules' on_init and on_start hooks wrote.
Db ==
    [created |-> created, count |-> workflow_count, status |-> status,
     steps |-> steps, scores |-> scores, inits |-> on_init_calls,
     starts |-> on_start_calls]

\* The database after the operation: the rows d.
Persist(d) ==
    /\ created' = d.created
    /\ workflow_count' = d.count
    /\ status' = d.status
    /\ steps' = d.steps
    /\ scores' = d.scores
    /\ on_init_calls' = d.inits
    /\ on_start_calls' = d.starts

\* A mutant of CommitOnSuccess: the decorator is missing, every write stays.
CommitAlways(raised, before, after) == after

\* @transaction.commit_on_success: the writes of the call are committed when
\* it returns and rolled back when it raises.
CommitOnSuccess(raised, before, after) == IF raised THEN before ELSE after

\* A mutant of InTransaction: every operation runs in a transaction.
InTransactionAlways(op) == TRUE

\* Whether the operation runs under @transaction.commit_on_success: only
\* start_workflow is decorated.
InTransaction(op) == op = "start_workflow"

\* A mutant of Swallowed: the listener has no except clauses.
SwallowedNever(op) == FALSE

\* Whether an exception raised under the operation is caught and logged:
\* only update_workflow_async wraps its work in try/except.
Swallowed(op) == op = "update_workflow_async"

\* The operations explored as the last of a run: a call recorded in rec that
\* left the database and the clock as it found them (a start_workflow that
\* raised, a listener call that found nothing to update, status_details).
\* What can follow such a call is what can follow the state before it.
Quiet(rec) ==
    \/ rec.op = "status_details"
    \/ rec.op = "start_workflow" /\ rec.raised
    \/ rec.fail \in {"no_uuid", "DoesNotExist", "DatabaseError"}

\* The record of an operation that raised at the place fail.
Raised(op, req, st, fail) ==
    [NoOp([op |-> "none"], op, req, st, <<>>) EXCEPT
        !.returned_early = FALSE, !.repeat = FALSE, !.raised = TRUE,
        !.propagated = ~Swallowed(op), !.fail = fail]

\* update_from_assessments raising an exception, on a workflow object read
\* from the rows db: in step.update of the k-th step its module cannot be
\* loaded or one of its completion tests raises (the steps before it are
\* saved, this one is not), or on_start or get_score raises (every step is
\* saved); the status is not saved. atomic says whether the call runs
\* inside start_workflow's transaction.
UpdateRaises(db, req, op, atomic) ==
    /\ ~IsDone(db.status)
    /\ \E ids \in GetSteps(db.steps), rows1 \in {GetStepsRows(db.steps)} :
       \E broken \in {FirstLoadError(ids, rows1)} :
       \/ \E k \in DOMAIN ids, fail \in {"step", "AssessmentApiLoadError"} :
            /\ fail = "step" =>
                    /\ rows1[ids[k]].name \in
                            AskedSubmitter(ids, rows1)
                                \cup AskedAssessment(ids, rows1)
                    /\ broken = 0 \/ k < broken
            /\ fail = "AssessmentApiLoadError" => k = broken
            /\ \E before_k \in {SubSeq(ids, 1, k - 1)} :
               \E sub_true \in SUBSET AskedSubmitter(before_k, rows1),
                  ass_true \in SUBSET AskedAssessment(before_k, rows1) :
               \E after \in {[db EXCEPT !.steps =
                                UpdateSteps(before_k, rows1, sub_true,
                                            ass_true, clock + 1)]} :
                    /\ Persist(IF atomic
                               THEN CommitOnSuccess(TRUE, Db, after)
                               ELSE after)
                    /\ last' = [Raised(op, req, status, fail) EXCEPT
                                    !.sub_true = sub_true,
                                    !.ass_true = ass_true]
       \/ /\ broken = 0
          /\ \E sub_true \in SUBSET AskedSubmitter(ids, rows1),
                ass_true \in SUBSET AskedAssessment(ids, rows1) :
             \E rows2 \in {UpdateSteps(ids, rows1, sub_true, ass_true,
                                       clock + 1)} :
             \E out \in {Outcome(ids, rows2, {})} :
             \E after \in {[db EXCEPT !.steps = rows2,
                                      !.starts = Started(@, out.started)]} :
             \E fail \in {"on_start", "get_score"} :
                /\ fail = "on_start" => out.started # "none"
                /\ fail = "get_score" => out.scorer # "none"
                /\ Persist(IF atomic
                           THEN CommitOnSuccess(TRUE, Db, after)
                           ELSE after)
                /\ last' = [Raised(op, req, status, fail) EXCEPT
                                !.sub_true = sub_true,
                                !.ass_true = ass_true]

\* ----------------------------------------------------------- start_workflow

\* workflow_steps: one AssessmentWorkflowStep per name, order_num = index.
WorkflowSteps(step_names) ==
    [i \in 1..Len(step_names) |-> NewStep(step_names[i], i - 1)]

\* The place in workflow_steps of the first step whose api() raises
\* AssessmentApiLoadError, 0 when every module loads.
LoadErrorAt(rows) == FirstLoadError([i \in DOMAIN rows |-> i], rows)

\* The index of the first step whose api() is not None, 0 for none.
FirstResolved(rows) ==
    IF \A i \in DOMAIN rows : ~HasApi(rows[i].name) THEN 0
    ELSE Min({i \in DOMAIN rows : HasApi(rows[i].name)})

\* The workflow status after the loop over workflow_steps: waiting from
\* objects.create, or the name of the first step whose module resolves.
StartStatus(rows) ==
    IF FirstResolved(rows) = 0 THEN "waiting"
    ELSE rows[FirstResolved(rows)].name

\* A mutant of UniqueViolation: submission_uuid is not declared unique.
UniqueViolationNever(count) == FALSE

\* submission_uuid = models.CharField(..., unique=True): objects.create
\* raises IntegrityError when the submission has a workflow row already.
UniqueViolation(count) == count >= 1

\* start_workflow(submission_uuid, step_names, on_init_params), returning
\* the new workflow.
StartWorkflow ==
    /\ ~UniqueViolation(workflow_count)
    /\ clock < MaxClock
    /\ ~Quiet(last)
    /\ \E step_names \in
            {l \in StepLists : LoadErrorAt(WorkflowSteps(l)) = 0} :
       LET rows == WorkflowSteps(step_names)
           first == FirstResolved(rows)
           starts == [n \in AllNames |->
                        IF /\ first # 0
                           /\ rows[first].name = n
                           /\ Defines(n, "on_start")
                        THEN on_start_calls[n] + 1 ELSE on_start_calls[n]]
       IN  /\ on_init_calls' =
                [n \in AllNames |->
                    on_init_calls[n] + Cardinality(
                        {i \in DOMAIN rows :
                            rows[i].name = n /\ Defines(n, "on_init")})]
           /\ Update(StartStatus(rows), rows, starts, ReqNone, "start_workflow",
                  step_names)
    /\ created' = TRUE
    /\ workflow_count' = workflow_count + 1
    /\ clock' = clock + 1
    /\ UNCHANGED <<selfvars, modules, selfvars>>
    /\ UNCHANGED procvars

\* The on_init counters after the loop over workflow_steps reached the k-th
\* step: one call per step whose module resolves and defines on_init.
Inited(rows, k) ==
    [n \in AllNames |->
        on_init_calls[n] + Cardinality(
            {i \in 1..k : rows[i].name = n /\ Defines(n, "on_init")})]

\* start_workflow raising an exception: the submission lookup fails,
\* objects.create violates the unique submission_uuid, the k-th step's
\* module cannot be loaded, its on_init or on_start raises, or
\* update_from_assessments(None) raises.
\* Nothing of the call is committed, no timestamp remains: the clock stays.
StartWorkflowFails ==
    /\ clock < MaxClock
    /\ ~Quiet(last)
    /\ \/ /\ Persist(CommitOnSuccess(TRUE, Db, Db))
          /\ last' = Raised("start_workflow", ReqNone, status, "lookup")
       \/ /\ UniqueViolation(workflow_count)
          /\ Persist(CommitOnSuccess(TRUE, Db, Db))
          /\ last' = Raised("start_workflow", ReqNone, status, "create")
       \/ /\ ~UniqueViolation(workflow_count)
          /\ \E step_names \in StepLists :
             LET rows == WorkflowSteps(step_names)
                 first == FirstResolved(rows)
                 starts ==
                    IF first # 0 /\ Defines(rows[first].name, "on_start")
                    THEN Started(on_start_calls, rows[first].name)
                    ELSE on_start_calls
                 made == [Db EXCEPT !.created = TRUE, !.count = @ + 1,
                                    !.status = "waiting", !.steps = rows]
                 begun == [made EXCEPT !.status = StartStatus(rows),
                                       !.starts = starts]
                 broken == LoadErrorAt(rows)
             IN
             \/ /\ broken # 0
                /\ Persist(CommitOnSuccess(TRUE, Db,
                        [(IF first < broken THEN begun ELSE made) EXCEPT
                            !.inits = Inited(rows, broken - 1)]))
                /\ last' = Raised("start_workflow", ReqNone, status,
                                  "AssessmentApiLoadError")
             \/ \E k \in DOMAIN rows :
                  /\ Defines(rows[k].name, "on_init")
                  /\ broken = 0 \/ k < broken
                  /\ Persist(CommitOnSuccess(TRUE, Db,
                        [(IF first < k THEN begun ELSE made) EXCEPT
                            !.inits = Inited(rows, k)]))
                  /\ last' = Raised("start_workflow", ReqNone, status,
                                    "on_init")
             \/ /\ first # 0
                /\ Defines(rows[first].name, "on_start")
                /\ broken = 0 \/ first < broken
                /\ Persist(CommitOnSuccess(TRUE, Db,
                        [begun EXCEPT !.inits = Inited(rows, first)]))
                /\ last' = Raised("start_workflow", ReqNone, status,
                                  "on_start")
             \/ /\ broken = 0
                /\ UpdateRaises(
                    [begun EXCEPT !.inits = Inited(rows, Len(rows))],
                    ReqNone, "start_workflow", InTransaction("start_workflow"))
    /\ UNCHANGED <<selfvars, modules, clock>>
    /\ UNCHANGED procvars

\* workflow.update_from_assessments(assessment_requirements) on a workflow
\* object just read from the database; the call returns, or a module raises
\* and the exception reaches the caller.
UpdateFromAssessments ==
    /\ created
    /\ clock < MaxClock
    /\ ~Quiet(last)
    /\ \E req \in Requirements :
        \/ /\ Update(status, steps, on_start_calls, req,
                     "update_from_assessments", <<>>)
           /\ UNCHANGED <<created, workflow_count, on_init_calls>>
        \/ UpdateRaises(Db, req, "update_from_assessments",
                        InTransaction("update_from_assessments"))
    /\ clock' = clock + 1
    /\ UNCHANGED <<selfvars, modules, selfvars>>
    /\ UNCHANGED procvars

\* The record of a listener call that returned before reading the workflow.
Ignored(st, fail) ==
    [NoOp([op |-> "none"], "update_workflow_async", ReqNone, st, <<>>) EXCEPT
        !.returned_early = FALSE, !.repeat = FALSE, !.fail = fail]

\* update_workflow_async(sender, submission_uuid=...): without a uuid the
\* call logs and returns; objects.get raises DoesNotExist when there is no
\* workflow, or DatabaseError; otherwise the workflow is updated with no
\* requirements, and whatever that raises is logged.
UpdateWorkflowAsync ==
    /\ clock < MaxClock
    /\ ~Quiet(last)
    /\ \/ /\ Persist(Db)
          /\ last' = Ignored(status, "no_uuid")
          /\ UNCHANGED clock
       \/ /\ ~created
          /\ Persist(Db)
          /\ last' = Raised("update_workflow_async", ReqNone, status,
                            "DoesNotExist")
          /\ UNCHANGED clock
       \/ /\ created
          /\ Persist(Db)
          /\ last' = Raised("update_workflow_async", ReqNone, status,
                            "DatabaseError")
          /\ UNCHANGED clock
       \/ /\ created
          /\ UpdateRaises(Db, ReqNone, "update_workflow_async",
                          InTransaction("update_workflow_async"))
          /\ clock' = clock + 1
       \/ /\ created
          /\ Update(status, steps, on_start_calls, ReqNone,
                    "update_workflow_async", <<>>)
          /\ UNCHANGED <<created, workflow_count, on_init_calls>>
          /\ clock' = clock + 1
    /\ UNCHANGED <<selfvars, modules, selfvars>>
    /\ UNCHANGED procvars

\* ------------------------------------------------------ self-assessment API

\* STUDENT_ITEM['student_id'] of the test case.
STUDENT == "test user"

\* The users that call create_assessment: the submitter and another user.
SelfUsers == {STUDENT, "another user"}

\* RUBRIC of the test case: criterion -> option -> points.
RUBRIC ==
    [clarity |->
        [n \in {"somewhat clear", "clear", "very clear"} |->
            CASE n = "somewhat clear" -> 1 [] n = "clear" -> 3 [] OTHER -> 5],
     accuracy |->
        [n \in {"somewhat accurate", "accurate", "very accurate"} |->
            CASE n = "somewhat accurate" -> 1 [] n = "accurate" -> 3
              [] OTHER -> 5]]

\* OPTIONS_SELECTED of the test case.
OPTIONS_SELECTED == [clarity |-> "clear", accuracy |-> "very accurate"]

\* The options_selected arguments tried: the test's, another valid choice,
\* and the three invalid ones of test_create_assessment_invalid_criterion,
\* _invalid_option and _missing_critieron.
SelfOptions ==
    { OPTIONS_SELECTED,
      [clarity |-> "very clear", accuracy |-> "accurate"],
      [clarity |-> "clear", accuracy |-> "very accurate",
       invalid |-> "not a criterion"],
      [clarity |-> "invalid option", accuracy |-> "very accurate"],
      [accuracy |-> "very accurate"] }

\* The options name exactly the rubric's criteria and one option of each.
ValidOptions(options) ==
    /\ DOMAIN options = DOMAIN RUBRIC
    /\ \A c \in DOMAIN RUBRIC : options[c] \in DOMAIN RUBRIC[c]

\* The highest points of an option of the criterion.
MaxPoints(c) ==
    CHOOSE m \in Range(RUBRIC[c]) : \A k \in Range(RUBRIC[c]) : k <= m

\* The assessment create_assessment stores and returns: the test expects
\* points_earned 8 of points_possible 10 for OPTIONS_SELECTED, no feedback
\* and score type SE.
Assessment(uuid, options) ==
    [submission_uuid |-> uuid,
     options |-> options,
     points_earned |->
        RUBRIC["clarity"][options["clarity"]]
            + RUBRIC["accuracy"][options["accuracy"]],
     points_possible |-> MaxPoints("clarity") + MaxPoints("accuracy"),
     feedback |-> "",
     score_type |-> "SE"]

NoAssessment == <<>>

\* A mutant of AlreadyAssessed: create_assessment does not look for an
\* earlier self-assessment.
AlreadyAssessedNever(stored, uuid) == FALSE

\* The submission has a self-assessment.
AlreadyAssessed(stored, uuid) == stored[uuid] # NoAssessment

\* The reason for which create_assessment raises SelfAssessmentRequestError,
\* "none" when it does not: no such submission, a submission of another
\* user, options that do not fit the rubric, or a self-assessment made
\* before.
SelfError(count, stored, uuid, user, options) ==
    CASE uuid > count -> "no submission"
      [] user # STUDENT -> "wrong user"
      [] ~ValidOptions(options) -> "invalid options"
      [] AlreadyAssessed(stored, uuid) -> "already assessed"
      [] OTHER -> "none"

\* get_submission_and_assessment(student_item): the student's latest
\* submission and its latest self-assessment, None (0, <<>>) for none.
Retrieved(count, stored) ==
    IF count = 0 THEN <<0, NoAssessment>>
    ELSE IF stored[count] = NoAssessment THEN <<count, NoAssessment>>
    ELSE <<count, stored[count][Len(stored[count])]>>

\* create_submission(STUDENT_ITEM, "Test answer")
CreateSubmission ==
    /\ submissions < MaxSubmissions
    /\ submissions' = submissions + 1
    /\ self_last' = [op |-> "create_submission", uuid |-> submissions + 1,
                     user |-> STUDENT, options |-> <<>>, error |-> "none",
                     returned |-> <<>>]
    /\ UNCHANGED self_assessments
    /\ UNCHANGED <<modules, created, workflow_count, status, steps, scores,
                   on_init_calls, on_start_calls, clock, last>>
    /\ UNCHANGED procvars

\* create_assessment(submission_uuid, user_id, options_selected, rubric)
CreateAssessment ==
    /\ \E uuid \in 1..MaxSubmissions, user \in SelfUsers,
          options \in SelfOptions :
        LET error == SelfError(submissions, self_assessments, uuid, user,
                               options)
        IN  IF error # "none"
            THEN /\ self_assessments' = self_assessments
                 /\ self_last' = [op |-> "create_assessment", uuid |-> uuid,
                                  user |-> user, options |-> options,
                                  error |-> error, returned |-> <<>>]
            ELSE /\ self_assessments' =
                        [self_assessments EXCEPT
                            ![uuid] = Append(@, Assessment(uuid, options))]
                 /\ self_last' = [op |-> "create_assessment", uuid |-> uuid,
                                  user |-> user, options |-> options,
                                  error |-> "none",
                                  returned |-> <<Assessment(uuid, options)>>]
    /\ UNCHANGED submissions
    /\ UNCHANGED <<modules, created, workflow_count, status, steps, scores,
                   on_init_calls, on_start_calls, clock, last>>
    /\ UNCHANGED procvars

\* get_submission_and_assessment(STUDENT_ITEM)
GetSubmissionAndAssessment ==
    /\ self_last' = [op |-> "get_submission_and_assessment",
                     uuid |-> submissions, user |-> STUDENT,
                     options |-> <<>>, error |-> "none",
                     returned |-> Retrieved(submissions, self_assessments)]
    /\ UNCHANGED <<submissions, self_assessments>>
    /\ UNCHANGED <<modules, created, workflow_count, status, steps, scores,
                   on_init_calls, on_start_calls, clock, last>>
    /\ UNCHANGED procvars

\* A mutant of DetailsRows: status_details latches what the modules answer,
\* as step.update does.
DetailsRowsLatched(ids, rows, sub_true, ass_true, t) ==
    UpdateSteps(ids, rows, sub_true, ass_true, t)

\* The step rows after the loop of status_details: the loop assigns to
\* status_dict only.
DetailsRows(ids, rows, sub_true, ass_true, t) == rows

\* A mutant of StatusDict: a step that has a timestamp is reported complete
\* (graded) without regard to what its module answers now.
StatusDictLatched(names, sub_true, ass_true) ==
    { <<n,
        \/ SubmitterFinished(n, sub_true)
        \/ \E i \in DOMAIN steps :
                steps[i].name = n /\ is_submitter_complete(steps[i]),
        \/ AssessmentFinished(n, ass_true)
        \/ \E i \in DOMAIN steps :
                steps[i].name = n /\ is_assessment_complete(steps[i])>> :
        n \in {m \in names : HasApi(m)} }

\* status_dict: for every step whose api() is not None, its name with the
\* answers of submitter_finished_func and assessment_finished_func.
StatusDict(names, sub_true, ass_true) ==
    { <<n, SubmitterFinished(n, sub_true), AssessmentFinished(n, ass_true)>> :
        n \in {m \in names : HasApi(m)} }

\* The exception status_details ends in, "none" when it returns: the loop
\* stops at the first step whose module cannot be loaded, or, with
\* requirements None, whose module loads (assessment_requirements.get raises
\* AttributeError).
RECURSIVE DetailsFailure(_, _, _, _)
DetailsFailure(k, ids, rows, req) ==
    IF k > Len(ids) THEN "none"
    ELSE IF ApiLoadError(rows[ids[k]].name) THEN "AssessmentApiLoadError"
    ELSE IF HasApi(rows[ids[k]].name) /\ req.none THEN "AttributeError"
    ELSE DetailsFailure(k + 1, ids, rows, req)

\* workflow.status_details(assessment_requirements): with requirements None
\* and a step whose module resolves, assessment_requirements.get raises
\* AttributeError. The call reads no clock.
StatusDetails ==
    /\ created
    /\ clock < MaxClock
    /\ ~Quiet(last)
    /\ \E req \in Requirements, ids \in GetSteps(steps) :
        LET rows1 == GetStepsRows(steps)
            names == {rows1[ids[i]].name : i \in DOMAIN ids}
            failure == DetailsFailure(1, ids, rows1, req)
        IN
        \/ /\ failure # "none"
           /\ steps' = rows1
           /\ last' = Raised("status_details", req, status, failure)
        \/ /\ failure = "none"
           /\ \E sub_true \in SUBSET
                    {n \in names : Defines(n, "submitter_is_finished")},
                 ass_true \in SUBSET
                    {n \in names : Defines(n, "assessment_is_finished")} :
                /\ steps' = DetailsRows(ids, rows1, sub_true, ass_true,
                                        clock + 1)
                /\ last' =
                    [NoOp([op |-> "none"], "status_details", req, status,
                          <<>>) EXCEPT
                        !.returned_early = FALSE, !.repeat = FALSE,
                        !.considered = names,
                        !.sub_true = sub_true, !.ass_true = ass_true,
                        !.details = StatusDict(names, sub_true, ass_true)]
    /\ UNCHANGED <<selfvars, modules, created, workflow_count, status, scores,
                   on_init_calls, on_start_calls, clock>>
    /\ UNCHANGED procvars

Init ==
    /\ modules \in ModuleConfigs
    /\ created = FALSE
    /\ workflow_count = 0
    /\ status = "absent"
    /\ steps = <<>>
    /\ scores = <<>>
    /\ on_init_calls = [n \in AllNames |-> 0]
    /\ on_start_calls = [n \in AllNames |-> 0]
    /\ clock = 0
    /\ last = [NoOp([op |-> "none"], "none", ReqNone, "absent", <<>>)
                EXCEPT !.returned_early = FALSE]
    /\ submissions = 0
    /\ self_assessments = [u \in 1..MaxSubmissions |-> NoAssessment]
    /\ self_last = [op |-> "none", uuid |-> 0, user |-> STUDENT,
                    options |-> <<>>, error |-> "none", returned |-> <<>>]
    /\ pc = [p \in Procs |-> "idle"]
    /\ w_status = [p \in Procs |-> "absent"]
    /\ w_rows = [p \in Procs |-> <<>>]
    /\ w_ids = [p \in Procs |-> <<>>]
    /\ w_idx = [p \in Procs |-> 0]
    /\ w_now = [p \in Procs |-> 0]

Next ==
    \/ StartWorkflowFails
    \/ StatusDetails
    \/ StartWorkflow
    \/ UpdateFromAssessments
    \/ UpdateWorkflowAsync

Spec == Init /\ [][Next]_vars

\* ------------------------------------------- interleaved re-evaluations

\* workflow = AssessmentWorkflow.objects.get(submission_uuid=submission_uuid):
\* caller p gets a workflow object of its own, a copy of the persisted row.
Load(p) ==
    /\ created
    /\ clock < MaxClock
    /\ pc[p] = "idle"
    /\ pc' = [pc EXCEPT ![p] = "loaded"]
    /\ w_status' = [w_status EXCEPT ![p] = status]
    /\ w_now' = [w_now EXCEPT ![p] = clock + 1]
    /\ clock' = clock + 1
    /\ UNCHANGED <<selfvars, modules, created, workflow_count, status, steps, scores,
                   on_init_calls, on_start_calls, last, w_rows, w_ids, w_idx>>

\* update_from_assessments up to "steps = self._get_steps()": the early
\* return on the object's status, else the step objects are read.
Begin(p) ==
    /\ pc[p] = "loaded"
    /\ IF IsDone(w_status[p])
       THEN /\ pc' = [pc EXCEPT ![p] = "idle"]
            /\ UNCHANGED <<steps, w_rows, w_ids, w_idx>>
       ELSE \E ids \in GetSteps(steps) :
            /\ steps' = GetStepsRows(steps)
            /\ w_rows' = [w_rows EXCEPT ![p] = GetStepsRows(steps)]
            /\ w_ids' = [w_ids EXCEPT ![p] = ids]
            /\ w_idx' = [w_idx EXCEPT ![p] = 1]
            /\ pc' = [pc EXCEPT ![p] = "steps"]
    /\ UNCHANGED <<selfvars, modules, created, workflow_count, status, scores,
                   on_init_calls, on_start_calls, clock, last, w_status, w_now>>

\* One turn of "for step in steps: step.update(...)": the step object of
\* caller p is updated and, when it changed, saved: save() writes every
\* field of the object over the row.
UpdateStep(p) ==
    /\ pc[p] = "steps"
    /\ w_idx[p] <= Len(w_ids[p])
    /\ LET i == w_ids[p][w_idx[p]]
       IN  \E sub_true \in SUBSET AskedSubmitter(<<i>>, w_rows[p]),
              ass_true \in SUBSET AskedAssessment(<<i>>, w_rows[p]) :
           LET step == StepUpdate(w_rows[p][i], sub_true, ass_true, w_now[p])
           IN  /\ w_rows' = [w_rows EXCEPT ![p][i] = step]
               /\ steps' = IF step # w_rows[p][i]
                           THEN [steps EXCEPT ![i] = step] ELSE steps
    /\ w_idx' = [w_idx EXCEPT ![p] = @ + 1]
    /\ UNCHANGED <<selfvars, modules, created, workflow_count, status, scores,
                   on_init_calls, on_start_calls, clock, last, pc, w_status,
                   w_ids, w_now>>

\* update_from_assessments after the loop: on_start, the scoring, and the
\* save of the workflow object when its status changed.
Finish(p) ==
    /\ pc[p] = "steps"
    /\ w_idx[p] > Len(w_ids[p])
    /\ \E score_ok \in SUBSET ScoreInputs(w_ids[p], w_rows[p]) :
       LET out == Outcome(w_ids[p], w_rows[p], score_ok)
       IN  /\ on_start_calls' = Started(on_start_calls, out.started)
           /\ scores' = SetScore(scores, out.score)
           /\ status' = IF SaveNeeded(w_status[p], out.final)
                        THEN out.final ELSE status
           /\ w_status' = [w_status EXCEPT ![p] = out.final]
    /\ pc' = [pc EXCEPT ![p] = "idle"]
    /\ UNCHANGED <<selfvars, modules, created, workflow_count, steps, on_init_calls,
                   clock, last, w_rows, w_ids, w_idx, w_now>>

NextConc ==
    \/ StartWorkflow
    \/ \E p \in Procs : Load(p)
    \/ \E p \in Procs : Begin(p)
    \/ \E p \in Procs : UpdateStep(p)
    \/ \E p \in Procs : Finish(p)

SpecConc == Init /\ [][NextConc]_vars

\* ---------------------------------------------------- a changed deployment

\* The names whose module a later deployment fails to import.
Unloadable == {"peer", "self"}

\* settings.ORA2_ASSESSMENTS is read at every api() call: between two
\* operations the path configured for a name stops being importable.
OverrideSettings ==
    /\ ~Quiet(last)
    /\ clock < MaxClock
    /\ \A n \in STEPS : ~ApiLoadError(n)
    /\ \E n \in Unloadable : modules' = [modules EXCEPT ![n] = ImportError]
    /\ last' = [NoOp([op |-> "none"], "override_settings", ReqNone, status,
                     <<>>) EXCEPT !.returned_early = FALSE]
    /\ UNCHANGED <<created, workflow_count, status, steps, scores,
                   on_init_calls, on_start_calls, clock>>
    /\ UNCHANGED <<procvars, selfvars>>

NextDeploy ==
    \/ OverrideSettings
    \/ StartWorkflowFails
    \/ StatusDetails
    \/ StartWorkflow
    \/ UpdateFromAssessments
    \/ UpdateWorkflowAsync

SpecDeploy == Init /\ [][NextDeploy]_vars

\* ------------------------------------------------ repeated re-evaluation

\* What the modules answered in the call recorded in rec: every completion
\* test asked said finished, and the get_score asked gave a score.
Cooperative(rec) ==
    /\ rec.sub_true = rec.asked_sub
    /\ rec.ass_true = rec.asked_ass
    /\ rec.scorer # "none" => rec.scorer \in rec.score_ok

\* update_from_assessments on a workflow that is not done, at a time when
\* the modules report every step finished and have a score to give.
Reevaluate ==
    /\ created
    /\ clock < MaxClock
    /\ ~IsDone(status)
    /\ \E req \in Requirements :
            Update(status, steps, on_start_calls, req,
                   "update_from_assessments", <<>>)
    /\ Cooperative(last')
    /\ clock' = clock + 1
    /\ UNCHANGED <<created, workflow_count, on_init_calls, modules>>
    /\ UNCHANGED <<procvars, selfvars>>

\* The calls before that time, the modules answering what they like and
\* raising where they can: start_workflow and direct updates, while the
\* clock leaves room for one more re-evaluation.
Earlier ==
    /\ clock < MaxClock - 1
    /\ StartWorkflow \/ UpdateFromAssessments

NextLive ==
    \/ Earlier
    \/ Reevaluate

\* The workflow is re-evaluated again and again (each view of the problem
\* and each assessment_complete_signal calls update_from_assessments), and
\* from some point on the modules report finished.
SpecLive == Init /\ [][NextLive]_vars /\ WF_vars(Reevaluate)

\* ------------------------------------------- the self-assessment API alone

NextSelf ==
    \/ CreateSubmission
    \/ CreateAssessment
    \/ GetSubmissionAndAssessment

SpecSelf == Init /\ [][NextSelf]_vars

\* ------------------------------------------------------------------ claims

\* The latched timestamps of the persisted step rows.
Latches(rows) ==
    [i \in DOMAIN rows |->
        <<rows[i].submitter_completed_at, rows[i].assessment_completed_at>>]

\* C1: once the workflow's status is done, no later update_from_assessments,
\* direct or through update_workflow_async, changes the status, writes a
\* score or invokes a module hook.
C1_DoneIsTerminal ==
    [][status = "done" =>
        /\ status' = "done"
        /\ scores' = scores
        /\ on_start_calls' = on_start_calls
        /\ on_init_calls' = on_init_calls]_vars

\* C1, its case: a direct call with requirements on a workflow that is done.
C1_Witness ==
    /\ status = "done"
    /\ last.op = "update_from_assessments"
    /\ last.pre_status = "done"
    /\ ~last.req.none

\* C2: in a sequence of calls, a submitter_completed_at or
\* assessment_completed_at that is set is never cleared nor overwritten.
C2_LatchesOneWay ==
    [][\A i \in DOMAIN steps :
        /\ is_submitter_complete(steps[i]) =>
             steps'[i].submitter_completed_at = steps[i].submitter_completed_at
        /\ is_assessment_complete(steps[i]) =>
             steps'[i].assessment_completed_at = steps[i].assessment_completed_at
      ]_vars

\* C2, its case: a step latched by an earlier call went through another
\* update, in which the other half of it was still asked about.
C2_Witness ==
    /\ last.op \in UpdateOps
    /\ ~last.returned_early
    /\ \E i \in DOMAIN steps :
        /\ steps[i].name \in last.considered
        /\ is_submitter_complete(steps[i])
        /\ steps[i].submitter_completed_at < clock
        /\ steps[i].name \in last.asked_ass

\* C5: a call that repeats the previous call (same requirements, same
\* answers from the modules) changes neither the status nor a latch.
C5_Idempotent ==
    [][last'.repeat => (status' = status /\ Latches(steps') = Latches(steps))]_vars

\* C5, its case: a repeated call that did ask modules, which said no again.
C5_Witness ==
    /\ last.repeat
    /\ ~last.returned_early
    /\ last.asked_sub # {}
    /\ last.asked_ass # {}
    /\ ~last.req.none

\* C6: each step's on_start hook is invoked at most once over the life of the
\* workflow, and only by a call in which the first incomplete step differs
\* from the step the workflow is at.
C6_OnStartAtMostOnce ==
    /\ \A n \in AllNames : on_start_calls[n] <= 1
    /\ (last.op \in UpdateOps /\ last.started # "none")
            => last.started # last.pre_status

\* The first name of the priority list whose step is in the workflow, whose
\* module defines get_score, and whose get_score gave a score in the last call.
FirstScoreGiven ==
    LET given == {k \in DOMAIN ASSESSMENT_SCORE_PRIORITY :
                    /\ ASSESSMENT_SCORE_PRIORITY[k] \in last.considered
                    /\ Defines(ASSESSMENT_SCORE_PRIORITY[k], "get_score")
                    /\ ASSESSMENT_SCORE_PRIORITY[k] \in last.score_ok}
    IN  IF given = {} THEN "none" ELSE ASSESSMENT_SCORE_PRIORITY[Min(given)]

\* C7: a score written to the submission store is the one returned by the
\* first name of the priority list that is in the workflow, defines get_score
\* and returned a score; that module is the only one consulted.
C7_ScoreIsFirstByPriority ==
    last.wrote # NoScore =>
        /\ FirstScoreGiven # "none"
        /\ last.scorer = FirstScoreGiven
        /\ last.wrote = ModuleScore(FirstScoreGiven)
        /\ scores # <<>>
        /\ scores[Len(scores)] = last.wrote

\* C7, its case: peer and self both have a score to give, and peer's is used.
C7_Witness ==
    /\ last.score_ok = {"peer", "self"}
    /\ last.wrote = ModuleScore("peer")
    /\ scores = <<ModuleScore("peer")>>

\* C8: when every step is fully assessed and some step of the workflow in
\* the priority list has a module whose get_score gives a score, the call
\* writes a score and sets the status to done.
C8_SomeScoreIsUsed ==
    (/\ ~last.returned_early
     /\ last.op # "none"
     /\ last.attempted
     /\ FirstScoreGiven # "none")
        => (status = "done" /\ last.wrote # NoScore)

\* No module of a step of the workflow defines get_score.
NoStepScores == \A i \in DOMAIN steps : ~Defines(steps[i].name, "get_score")

\* Every step has both completion timestamps set.
AllLatched ==
    \A i \in DOMAIN steps :
        is_submitter_complete(steps[i]) /\ is_assessment_complete(steps[i])

\* C9: when no module of a step of the workflow defines get_score, the
\* workflow is waiting once every step is fully latched, it is never done and
\* no score is written.
C9_WaitingWithoutScorer ==
    (created /\ NoStepScores) =>
        /\ status # "done"
        /\ scores = <<>>
        /\ AllLatched => status = "waiting"

\* C9, its case: peer and self fully latched by an earlier call, no scorer,
\* and one more call made.
C9_Witness ==
    /\ created /\ NoStepScores /\ AllLatched
    /\ {steps[i].name : i \in DOMAIN steps} = {"peer", "self"}
    /\ \A i \in DOMAIN steps : steps[i].assessment_completed_at < clock
    /\ last.op = "update_from_assessments"
    /\ last.attempted
    /\ status = "waiting"

\* The first name of the step_names of the last start_workflow whose module
\* resolves, "none" when there is none.
FirstListedResolved ==
    LET hits == {i \in DOMAIN last.step_names : HasApi(last.step_names[i])}
    IN  IF hits = {} THEN "none" ELSE last.step_names[Min(hits)]

\* C10: start_workflow returns a workflow whose status is the name of the
\* first listed step whose module resolves, when that module's
\* submitter_is_finished is not satisfied with no requirements.
C10_StartsAtFirstStep ==
    (/\ last.op = "start_workflow"
     /\ FirstListedResolved # "none"
     /\ Defines(FirstListedResolved, "submitter_is_finished")
     /\ FirstListedResolved \notin last.sub_true)
        => status = FirstListedResolved

\* C10, its case: steps [peer, self] with nothing met.
C10_Witness ==
    /\ last.op = "start_workflow"
    /\ last.step_names = <<"peer", "self">>
    /\ last.asked_sub = {"peer", "self"}
    /\ last.sub_true = {}
    /\ last.ass_true = {}
    /\ status = "peer"

\* C3: when two re-evaluations of one workflow interleave, each on its own
\* workflow object, the persisted status never leaves done.
C3_PersistedDoneStays ==
    [][status = "done" => status' = "done"]_vars

\* C4: when two re-evaluations interleave, each on its own step objects, a
\* persisted completion timestamp is never cleared nor replaced by the
\* other's save of the row.
C4_PersistedLatchStays ==
    [][\A i \in DOMAIN steps :
        /\ steps[i].submitter_completed_at # None =>
             steps'[i].submitter_completed_at = steps[i].submitter_completed_at
        /\ steps[i].assessment_completed_at # None =>
             steps'[i].assessment_completed_at = steps[i].assessment_completed_at
      ]_vars


\* C11: start_workflow is atomic. When the submission lookup fails, or a
\* module's on_init or on_start hook raises, or the initial re-evaluation
\* raises, the exception reaches the caller and the database is as it was
\* before the call: no workflow row, no step row, no status, no score.
C11_StartIsAtomic ==
    [][(last'.op = "start_workflow" /\ last'.raised) =>
            /\ last'.propagated
            /\ created' = created
            /\ workflow_count' = workflow_count
            /\ status' = status
            /\ steps' = steps
            /\ scores' = scores]_vars

\* A start_workflow whose initial re-evaluation raised in a step's update,
\* after the workflow and its steps had been written, left no workflow.
C11_Witness ==
    /\ last.op = "start_workflow"
    /\ last.raised
    /\ last.fail = "step"
    /\ ~created
    /\ steps = <<>>


\* C12: update_workflow_async never lets an exception out. A signal without
\* a submission uuid, a submission without a workflow, a storage error and
\* an exception of a module all end in a log entry; and when the workflow
\* does not exist nothing in the database changes.
C12_ListenerNeverRaises ==
    [][last'.op = "update_workflow_async" =>
            /\ ~last'.propagated
            /\ ~created =>
                    /\ ~created'
                    /\ workflow_count' = workflow_count
                    /\ status' = status
                    /\ steps' = steps
                    /\ scores' = scores
                    /\ on_init_calls' = on_init_calls
                    /\ on_start_calls' = on_start_calls]_vars

\* The listener ran on an existing workflow, a module's get_score raised and
\* the caller saw no exception.
C12_Witness ==
    /\ last.op = "update_workflow_async"
    /\ last.raised
    /\ last.fail = "get_score"
    /\ ~last.propagated
    /\ created


\* The last operation evaluated the steps and returned: start_workflow or an
\* update that did not raise and did not stop at "status == done".
Evaluated ==
    /\ last.op \in UpdateOps \cup {"start_workflow"}
    /\ ~last.raised
    /\ last.fail = "none"
    /\ ~last.returned_early

\* C13: a step whose name has no configured module never blocks the
\* workflow. The status is never the name of such a step; and once an
\* evaluation has returned with every configured step complete and assessed,
\* the status is waiting or done, whatever unconfigured steps there are.
C13_UnconfiguredNeverBlocks ==
    created =>
        /\ \A i \in DOMAIN steps :
                ~HasApi(steps[i].name) => status # steps[i].name
        /\ (/\ Evaluated
            /\ \A i \in DOMAIN steps :
                    HasApi(steps[i].name) =>
                        /\ is_submitter_complete(steps[i])
                        /\ is_assessment_complete(steps[i]))
              => status \in {"waiting", "done"}

\* A workflow with an unconfigured step that no call ever completed is done.
C13_Witness ==
    /\ created
    /\ Evaluated
    /\ status = "done"
    /\ \E i \in DOMAIN steps :
            /\ ~HasApi(steps[i].name)
            /\ ~is_submitter_complete(steps[i])


\* C14: status_details is read-only. It changes neither the status nor the
\* timestamps of any step, writes no score and calls no on_init, on_start or
\* get_score.
C14_StatusDetailsReadOnly ==
    [][last'.op = "status_details" =>
            /\ status' = status
            /\ \A i \in DOMAIN steps : steps'[i] = steps[i]
            /\ scores' = scores
            /\ on_init_calls' = on_init_calls
            /\ on_start_calls' = on_start_calls
            /\ last'.started = "none"
            /\ last'.scorer = "none"
            /\ last'.wrote = NoScore]_vars

\* status_details reported a step complete and graded whose row has neither
\* timestamp.
C14_Witness ==
    /\ last.op = "status_details"
    /\ ~last.raised
    /\ \E i \in DOMAIN steps :
            /\ <<steps[i].name, TRUE, TRUE>> \in last.details
            /\ Defines(steps[i].name, "submitter_is_finished")
            /\ Defines(steps[i].name, "assessment_is_finished")
            /\ ~is_submitter_complete(steps[i])
            /\ ~is_assessment_complete(steps[i])


\* C15: a submission has at most one workflow. start_workflow for a
\* submission that has one raises, and the database is as before: no second
\* workflow, no further step rows, the existing workflow untouched.
C15_OneWorkflowPerSubmission ==
    [][/\ workflow_count' <= 1
       /\ (created /\ last'.op = "start_workflow") =>
                /\ last'.raised
                /\ last'.propagated
                /\ created'
                /\ workflow_count' = workflow_count
                /\ status' = status
                /\ steps' = steps
                /\ scores' = scores]_vars

\* start_workflow was called for a submission whose workflow had advanced,
\* and objects.create was refused.
C15_Witness ==
    /\ created
    /\ workflow_count = 1
    /\ last.op = "start_workflow"
    /\ last.fail = "create"
    /\ \E i \in DOMAIN steps : is_submitter_complete(steps[i])


\* C16: a submission is self-assessed at most once. No submission ever has
\* two stored self-assessments; a create_assessment for a submission that
\* has one raises SelfAssessmentRequestError, and what
\* get_submission_and_assessment returns is what it returned before.
C16_SelfAssessedOnce ==
    [][/\ \A u \in 1..MaxSubmissions : Len(self_assessments'[u]) <= 1
       /\ (/\ self_last'.op = "create_assessment"
           /\ self_assessments[self_last'.uuid] # NoAssessment) =>
                /\ self_last'.error # "none"
                /\ self_assessments' = self_assessments
                /\ Retrieved(submissions', self_assessments') =
                        Retrieved(submissions, self_assessments)]_vars

\* The submitter assessed a submission with OPTIONS_SELECTED, tried again with
\* other valid options and was refused; the stored assessment is the first.
C16_Witness ==
    /\ self_last.op = "create_assessment"
    /\ self_last.user = STUDENT
    /\ self_last.error = "already assessed"
    /\ self_last.options # OPTIONS_SELECTED
    /\ self_last.uuid = submissions
    /\ Retrieved(submissions, self_assessments) =
            <<submissions, Assessment(submissions, OPTIONS_SELECTED)>>
    /\ Retrieved(submissions, self_assessments)[2].points_earned = 8
    /\ Retrieved(submissions, self_assessments)[2].points_possible = 10


\* The rows of the steps the last evaluation considered.
Considered == {i \in DOMAIN steps : steps[i].name \in last.considered}

\* C17: when an evaluation has returned with a status other than done, the
\* status is the name of the first step considered, in order_num order,
\* whose submitter_completed_at is unset, and waiting when there is none: a
\* status that is a step name names a submitter-incomplete step whose
\* predecessors are all submitter-complete.
C17_StatusIsFirstIncomplete ==
    (Evaluated /\ status # "done") =>
        LET open == {i \in Considered : ~is_submitter_complete(steps[i])}
        IN  /\ open = {} => status = "waiting"
            /\ open # {} =>
                \E i \in open :
                    /\ status = steps[i].name
                    /\ \A j \in Considered :
                            steps[j].order_num < steps[i].order_num =>
                                is_submitter_complete(steps[j])

\* An update returned with the status at the second step: the first step is
\* submitter-complete but not assessed, the second is not submitter-complete.
C17_Witness ==
    /\ Evaluated
    /\ last.op \in UpdateOps
    /\ Len(steps) = 2
    /\ status = steps[2].name
    /\ is_submitter_complete(steps[1])
    /\ ~is_assessment_complete(steps[1])
    /\ ~is_submitter_complete(steps[2])

\* C18: the status becomes done only in an evaluation in which every step
\* considered has both timestamps and a score that is not null was written
\* to the submission store; and whenever the status is done a score has
\* been written and all those steps have both timestamps.
C18_DoneMeansScoredAndLatched ==
    [][status' = "done" =>
            /\ scores' # <<>>
            /\ \A i \in Recognized(steps') :
                    /\ is_submitter_complete(steps'[i])
                    /\ is_assessment_complete(steps'[i])
            /\ status # "done" =>
                    /\ last'.op \in UpdateOps \cup {"start_workflow"}
                    /\ ~last'.raised
                    /\ last'.wrote # NoScore
                    /\ scores' = Append(scores, last'.wrote)
                    /\ \A i \in DOMAIN steps' :
                            steps'[i].name \in last'.considered =>
                                /\ is_submitter_complete(steps'[i])
                                /\ is_assessment_complete(steps'[i])]_vars

\* An update of a workflow of two steps, not done before, wrote a score and
\* set the status to done.
C18_Witness ==
    /\ status = "done"
    /\ last.op \in UpdateOps
    /\ last.pre_status \notin {"done", "waiting"}
    /\ last.wrote # NoScore
    /\ scores = <<last.wrote>>
    /\ Cardinality(Recognized(steps)) = 2

\* C19: update_from_assessments saves the workflow row only when the status
\* it computed differs from the status the workflow has; a call that computes
\* the same status does not write the row.
C19_SavedOnlyOnChange ==
    [][(last'.op \in UpdateOps /\ ~last'.raised /\ last'.fail = "none") =>
            /\ last'.saved <=> last'.computed # status
            /\ ~last'.saved => status' = status
            /\ last'.saved => status' = last'.computed]_vars

\* An update that latched a timestamp computed the status the workflow had
\* and did not save the workflow.
C19_Witness ==
    /\ last.op \in UpdateOps
    /\ ~last.raised
    /\ ~last.returned_early
    /\ last.fail = "none"
    /\ last.sub_true \cup last.ass_true # {}
    /\ last.computed = last.pre_status
    /\ ~last.saved

\* C20: a step whose module resolves but defines no submitter_is_finished
\* (assessment_is_finished) has submitter_completed_at
\* (assessment_completed_at) set by the first evaluation that considers it,
\* whatever the requirements.
C20_MissingTestLatches ==
    Evaluated =>
        \A i \in Considered :
            HasApi(steps[i].name) =>
                /\ ~Defines(steps[i].name, "submitter_is_finished") =>
                        is_submitter_complete(steps[i])
                /\ ~Defines(steps[i].name, "assessment_is_finished") =>
                        is_assessment_complete(steps[i])

\* start_workflow, the first evaluation, completed a step whose module
\* defines neither test, while a step that defines them is not complete.
C20_Witness ==
    /\ Evaluated
    /\ last.op = "start_workflow"
    /\ \E i, j \in Considered :
            /\ HasApi(steps[i].name)
            /\ ~Defines(steps[i].name, "submitter_is_finished")
            /\ ~Defines(steps[i].name, "assessment_is_finished")
            /\ is_submitter_complete(steps[i])
            /\ is_assessment_complete(steps[i])
            /\ Defines(steps[j].name, "submitter_is_finished")
            /\ ~is_submitter_complete(steps[j])


\* C21: status_details reports what the modules answer now, not the stored
\* timestamps: for every step whose module resolves, complete (graded) is
\* the answer of submitter_is_finished (assessment_is_finished), true when
\* the module does not define it, also for a step that has the timestamp.
C21_DetailsAreLive ==
    (last.op = "status_details" /\ ~last.raised) =>
        /\ {d[1] : d \in last.details} = {n \in last.considered : HasApi(n)}
        /\ \A d \in last.details :
                /\ d[2] = (Defines(d[1], "submitter_is_finished")
                                => d[1] \in last.sub_true)
                /\ d[3] = (Defines(d[1], "assessment_is_finished")
                                => d[1] \in last.ass_true)

\* status_details reported a step neither complete nor graded whose row has
\* both timestamps.
C21_Witness ==
    /\ last.op = "status_details"
    /\ ~last.raised
    /\ \E i \in DOMAIN steps :
            /\ <<steps[i].name, FALSE, FALSE>> \in last.details
            /\ is_submitter_complete(steps[i])
            /\ is_assessment_complete(steps[i])


\* C22: the step lists of update_from_assessments and status_details hold
\* configured names only. No call considers a step with an unknown name, such
\* a step never gets a timestamp and is never the status, and no call
\* deletes it, also when every step of the workflow is unknown.
C22_OnlyConfiguredConsidered ==
    [][/\ last'.considered \subseteq STEPS
       /\ \A i \in DOMAIN steps' :
            steps'[i].name \notin STEPS =>
                /\ ~is_submitter_complete(steps'[i])
                /\ ~is_assessment_complete(steps'[i])
                /\ status' # steps'[i].name
       /\ (created /\ created') =>
            \A i \in DOMAIN steps :
                steps[i].name \notin STEPS =>
                    i \in DOMAIN steps' /\ steps'[i].name = steps[i].name]_vars


\* The name and order_num of every row, in id order.
StepSequence(rows) == [i \in DOMAIN rows |-> <<rows[i].name, rows[i].order_num>>]

\* C23: the default sequence peer, self is synthesized exactly once, at the
\* first access of a workflow with no recognized step. The first
\* update_from_assessments call, the one that ends start_workflow, adds
\* peer (order_num 0) and self (order_num 1) when no listed name is
\* configured and adds nothing otherwise; no later call adds a step.
C23_FallbackOnce ==
    [][/\ (last'.op = "start_workflow" /\ ~last'.raised) =>
            StepSequence(steps') =
                IF Recognized(WorkflowSteps(last'.step_names)) = {}
                THEN StepSequence(WorkflowSteps(last'.step_names))
                        \o <<(<<"peer", 0>>), (<<"self", 1>>)>>
                ELSE StepSequence(WorkflowSteps(last'.step_names))
       /\ created => StepSequence(steps') = StepSequence(steps)]_vars

\* A workflow started with an unknown name only got peer and self, and a
\* later update that evaluated the steps found the same three rows.
C23_Witness ==
    /\ created
    /\ last.op = "update_from_assessments"
    /\ ~last.raised
    /\ ~last.returned_early
    /\ StepSequence(steps) = <<(<<"bogus", 0>>), (<<"peer", 0>>), (<<"self", 1>>)>>


\* C24: the order_num values of the steps of a workflow are pairwise
\* distinct in every state, also after _get_steps added peer and self to a
\* workflow whose steps all have unknown names.
C24_OrderNumsDistinct ==
    \A i, j \in DOMAIN steps :
        i # j => steps[i].order_num # steps[j].order_num


\* C25, as stated: no completion test that step.update calls receives None
\* as its requirements, also when update_from_assessments was called with
\* requirements None.
C25_NeverNullReqs ==
    \A p \in last.passed : p[2] # "None"

\* C25, amended: step.update calls each completion test the module defines
\* (for a half of the step that is open) with None when
\* update_from_assessments was called with requirements None, and otherwise
\* with the sub-dict of the step's name, an empty dict when the requirements
\* have no entry for the name.
C25_ReqsAsGiven ==
    (last.op \in UpdateOps \cup {"start_workflow"}) =>
        /\ {p[1] : p \in last.passed} = last.asked_sub \cup last.asked_ass
        /\ \A p \in last.passed :
                p[2] = IF last.req.none THEN "None"
                       ELSE IF p[1] \in last.req.keys THEN p[1] ELSE "{}"

\* An update with requirements for peer only asked peer with its sub-dict
\* and self with an empty dict.
C25_Witness ==
    /\ last.op = "update_from_assessments"
    /\ ~last.req.none
    /\ <<"peer", "peer">> \in last.passed
    /\ <<"self", "{}">> \in last.passed


\* C26: when a module raises during a direct update_from_assessments call,
\* the exception reaches the caller, the timestamps saved for the steps
\* updated before the raise stay in the database (nothing is rolled back),
\* and the status and the scores are as before the call.
C26_RaiseKeepsEarlierLatches ==
    [][(last'.op = "update_from_assessments" /\ last'.raised) =>
            /\ last'.propagated
            /\ status' = status
            /\ scores' = scores
            /\ DOMAIN steps' = DOMAIN steps
            /\ \A i \in DOMAIN steps' :
                    /\ steps'[i].name \in last'.sub_true =>
                            steps'[i].submitter_completed_at = clock'
                    /\ steps'[i].name \in last'.ass_true =>
                            steps'[i].assessment_completed_at = clock'
                    /\ is_submitter_complete(steps[i]) =>
                            steps'[i].submitter_completed_at =
                                steps[i].submitter_completed_at
                    /\ is_assessment_complete(steps[i]) =>
                            steps'[i].assessment_completed_at =
                                steps[i].assessment_completed_at]_vars

\* The second step's module raised in a direct update after the first step
\* had been found complete: the first step has the timestamp of that call
\* and the status is the one from before.
C26_Witness ==
    /\ last.op = "update_from_assessments"
    /\ last.raised
    /\ last.fail = "step"
    /\ last.propagated
    /\ status = last.pre_status
    /\ Len(steps) = 2
    /\ steps[1].name \in last.sub_true
    /\ steps[1].submitter_completed_at = clock
    /\ status = steps[1].name


\* C27: the two failures of module resolution differ. AssessmentApiLoadError
\* is raised only for a configured name whose module cannot be imported; it
\* reaches the caller of start_workflow and of update_from_assessments and
\* leaves the status as it was. A start_workflow or a direct update of a
\* workflow that is not done, with such a step to resolve, does not return.
\* A name that is not configured never raises it: its step resolves to None.
C27_LoadErrorOrNoHandler ==
    [][/\ last'.fail = "AssessmentApiLoadError" =>
            /\ \E n \in STEPS : modules'[n] = ImportError
            /\ status' = status
            /\ last'.op \in {"start_workflow", "update_from_assessments"} =>
                    last'.raised /\ last'.propagated
       /\ (/\ last'.op = "update_from_assessments"
           /\ ~IsDone(status)
           /\ \E i \in Recognized(steps) : ApiLoadError(steps[i].name)) =>
                /\ last'.raised
                /\ last'.propagated
                /\ status' = status
       /\ (last'.op = "start_workflow" /\ ~last'.raised) =>
                \A n \in Range(last'.step_names) \cup last'.considered :
                    n \in STEPS => modules'[n] # ImportError]_vars

\* A workflow was started with an unconfigured step and peer; peer's module
\* then stopped loading and a direct update raised AssessmentApiLoadError,
\* the status being what it was.
C27_Witness ==
    /\ created
    /\ last.op = "update_from_assessments"
    /\ last.fail = "AssessmentApiLoadError"
    /\ last.propagated
    /\ status = last.pre_status
    /\ StepSequence(steps) = <<(<<"bogus", 0>>), (<<"peer", 1>>)>>
    /\ ApiLoadError("peer")


\* A step of the workflow is in the priority list and its module defines
\* get_score.
HasScorer ==
    \E i \in Recognized(steps) :
        /\ steps[i].name \in Range(ASSESSMENT_SCORE_PRIORITY)
        /\ Defines(steps[i].name, "get_score")

\* C28: progress. An update_from_assessments call on a workflow that is not
\* done, in which every module asked reports the submitter and the
\* assessment finished, attempts the scoring in that same call, whatever
\* step the status was at; when a step of the priority list has a module
\* with get_score and the first such module gives a score, the call writes
\* it and the status is done. Re-evaluated repeatedly with such answers, a
\* workflow that has a scorer eventually is done.
C28_Progress ==
    /\ [][(/\ last'.op \in UpdateOps
           /\ ~last'.returned_early
           /\ ~last'.raised
           /\ last'.fail = "none"
           /\ last'.sub_true = last'.asked_sub
           /\ last'.ass_true = last'.asked_ass) =>
                /\ last'.attempted
                /\ HasScorer => last'.scorer # "none"
                /\ (last'.scorer # "none"
                        /\ last'.scorer \in last'.score_ok) =>
                            /\ status' = "done"
                            /\ scores' =
                                Append(scores, ModuleScore(last'.scorer))]_vars
    /\ (created /\ HasScorer) ~> (status = "done")

\* A workflow of two steps with the status at its first step, nothing
\* finished so far, was done after one call.
C28_Witness ==
    /\ status = "done"
    /\ last.op = "update_from_assessments"
    /\ Len(steps) = 2
    /\ last.pre_status = steps[1].name
    /\ last.asked_sub = {steps[1].name, steps[2].name}
    /\ last.asked_ass = {steps[1].name, steps[2].name}
    /\ Cooperative(last)


\* C29: whatever the sequence and the interleaving of re-evaluations of one
\* workflow, by update_from_assessments calls and by update_workflow_async
\* deliveries, the workflow writes at most one score to the submission store.
C29_ScoreWrittenOnce ==
    Len(scores) <= 1

====
